---- MODULE Spec2Model ----
(***************************************************************************)
(* FeatureExtractor of strephit/classification/feature_extractors.py.      *)
(*                                                                         *)
(* Strings that take part in comparisons are modelled as sequences of      *)
(* words (a text "the mayor" is <<"the", "mayor">>), so that the text of a  *)
(* chunk, the tokens of a chunk and the surface of a token stay distinct   *)
(* notions.  Positions are 0-based as in the source; At(s, i) reads s[i].  *)
(***************************************************************************)
EXTENDS Naturals, Integers, Sequences, FiniteSets, TLC

VARIABLES window_width, collapse_fes, samples, vocabulary, labels, last, al_in, al_out

vars == <<window_width, collapse_fes, samples, vocabulary, labels, last, al_in, al_out>>

(* ------------------------------ bounds --------------------------------- *)

MaxWidth == 1

MaxSamples == 2

MaxLen == 3

MaxChunk == 2

(* ------------------------------ helpers -------------------------------- *)

At(s, i) == s[i + 1]

Min(a, b) == IF a < b THEN a ELSE b

Max(a, b) == IF a > b THEN a ELSE b

SeqsUpTo(S, n) == UNION {[1..m -> S] : m \in 0..n}

\* str.lower() on one word
LowerWord(w) ==
  CASE w = "A" -> "a"
    [] w = "B" -> "b"
    [] w = "John" -> "john"
    [] w = "Smith" -> "smith"
    [] OTHER -> w

\* str.lower() on a text
Lower(t) == [i \in DOMAIN t |-> LowerWord(t[i])]

\* a token as the tagger returns it: a 3-tuple (term, pos, lemma)
Tag(term, pos, lemma) ==
  [term |-> term, pos |-> pos, lemma |-> lemma, fe |-> "", len |-> 3]

\* TTPosTagger.tokenize: one token per word of the text
Tokenize(chunk) == [i \in DOMAIN chunk |-> <<chunk[i]>>]

unk_feature == <<"UNK">>

ENT == <<"ENT">>

(* -------------------------- sentence_to_tokens -------------------------- *)

\* the while loop of the scan; the result is the value of found and of i
RECURSIVE Scan(_, _, _, _)
Scan(fe_tokens, tagged, i, j) ==
  IF ~(i < Len(tagged))
  THEN [found |-> FALSE, i |-> i]
  ELSE IF Lower(At(fe_tokens, j)) = Lower(At(tagged, i).term)
       THEN IF j + 1 = Len(fe_tokens)
            THEN [found |-> TRUE, i |-> i]
            ELSE Scan(fe_tokens, tagged, i + 1, j + 1)
       ELSE Scan(fe_tokens, tagged, i + 1, 0)

\* Collapse slicing the tail from position + 1: the rest of the span is kept
Collapse_keeps_span(tagged, position, k, chunk, pos, fe) ==
  SubSeq(tagged, 1, position)
    \o <<[term |-> chunk, pos |-> pos, lemma |-> chunk, fe |-> fe, len |-> 4]>>
    \o SubSeq(tagged, position + 2, Len(tagged))

\* the collapse branch: one token with the whole chunk
Collapse(tagged, position, k, chunk, pos, fe) ==
  SubSeq(tagged, 1, position)
    \o <<[term |-> chunk, pos |-> pos, lemma |-> chunk, fe |-> fe, len |-> 4]>>
    \o SubSeq(tagged, position + k + 1, Len(tagged))

\* the split branch unpacks each token of the span as a 3-tuple
SplitRaises(tagged, position, k) ==
  \E i \in position..(position + k - 1) : At(tagged, i).len # 3

Split(tagged, position, k, fe) ==
  [x \in DOMAIN tagged |->
     IF x - 1 \in position..(position + k - 1)
     THEN [term |-> tagged[x].term, pos |-> tagged[x].pos,
           lemma |-> ENT, fe |-> fe, len |-> 4]
     ELSE tagged[x]]

\* one iteration of the loop over the FE map
FeStep(tagged, entry, collapse) ==
  LET skip == [fe |-> entry.fe, chunk |-> entry.chunk, k |-> 0, skipped |-> TRUE,
               found |-> FALSE, position |-> 0, raised |-> FALSE,
               before |-> tagged, after |-> tagged]
  IN IF entry.null
     THEN skip
     ELSE LET fe_tokens == Tokenize(entry.chunk)
              k == Len(fe_tokens)
          IN IF k = 0
             THEN skip
             ELSE LET r == Scan(fe_tokens, tagged, 0, 0)
                      position == r.i - k + 1
                      pos == IF k > 1 THEN ENT ELSE At(tagged, position).pos
                  IN IF ~r.found
                     THEN [skip EXCEPT !.k = k, !.skipped = FALSE]
                     ELSE [fe |-> entry.fe, chunk |-> entry.chunk, k |-> k,
                           skipped |-> FALSE, found |-> TRUE, position |-> position,
                           raised |-> ~collapse /\ SplitRaises(tagged, position, k),
                           before |-> tagged,
                           after |-> IF collapse
                                     THEN Collapse(tagged, position, k, entry.chunk, pos, entry.fe)
                                     ELSE IF SplitRaises(tagged, position, k)
                                          THEN tagged
                                          ELSE Split(tagged, position, k, entry.fe)]

\* the loop over fes.iteritems(); fes is the map in its iteration order
RECURSIVE FeLoop(_, _, _, _, _)
FeLoop(tagged, fes, n, collapse, steps) ==
  IF n > Len(fes)
  THEN [raised |-> FALSE, tagged |-> tagged, steps |-> steps]
  ELSE LET s == FeStep(tagged, fes[n], collapse)
       IN IF s.raised
          THEN [raised |-> TRUE, tagged |-> <<>>, steps |-> Append(steps, s)]
          ELSE FeLoop(s.after, fes, n + 1, collapse, Append(steps, s))

\* sentence is what tagger.tag_one returns for the sentence
sentence_to_tokens(sentence, fes, collapse) == FeLoop(sentence, fes, 1, collapse, <<>>)

(* ------------------------ inputs of the alignment ----------------------- *)

\* the words of the chunks and the tokens of the sentences: "a" matches the
\* token "A" and "B" matches the token "b" only case-insensitively
Words == {"a", "B", "b"}

Lexicon == {Tag(<<"A">>, <<"NN">>, <<"a">>), Tag(<<"b">>, <<"VB">>, <<"b">>)}

FeNames == {"X", "Y"}

Entries(maxChunk) ==
  {[fe |-> f, null |-> TRUE, chunk |-> <<>>] : f \in FeNames}
    \cup {[fe |-> f, null |-> FALSE, chunk |-> c] : f \in FeNames, c \in SeqsUpTo(Words, maxChunk)}

\* an FE map in iteration order: its keys are distinct
FeMaps(maxChunk) ==
  {m \in SeqsUpTo(Entries(maxChunk), Cardinality(FeNames)) :
     \A i, j \in DOMAIN m : i # j => m[i].fe # m[j].fe}

ExampleSentence ==
  <<Tag(<<"John">>, <<"NP">>, <<"John">>), Tag(<<"Smith">>, <<"NP">>, <<"Smith">>),
    Tag(<<"killed">>, <<"VVD">>, <<"kill">>), Tag(<<"the">>, <<"DT">>, <<"the">>),
    Tag(<<"mayor">>, <<"NN">>, <<"mayor">>)>>

Victim == [fe |-> "Victim", null |-> FALSE, chunk |-> <<"the", "mayor">>]

Perpetrator == [fe |-> "Perpetrator", null |-> FALSE, chunk |-> <<"John", "Smith">>]

ExampleInputs ==
  {[sentence |-> ExampleSentence, fes |-> m, collapse |-> c] :
     m \in {<<Victim, Perpetrator>>, <<Perpetrator, Victim>>}, c \in BOOLEAN}

AlignInputs ==
  {[sentence |-> s, fes |-> m, collapse |-> c] :
     s \in SeqsUpTo(Lexicon, MaxLen), m \in FeMaps(MaxChunk), c \in BOOLEAN}
    \cup ExampleInputs

NoOut == [done |-> FALSE, raised |-> FALSE, tagged |-> <<>>, steps |-> <<>>]

NoLast == [op |-> "init", add_unknown |-> FALSE, raised |-> FALSE, tagged |-> <<>>,
           result |-> <<>>]

NoIn == [sentence |-> <<>>, fes |-> <<>>, collapse |-> TRUE]

\* the alignment as a pure function of its inputs
InitAlign ==
  /\ al_in \in AlignInputs
  /\ al_out = NoOut
  /\ window_width = 0
  /\ collapse_fes = al_in.collapse
  /\ samples = <<>>
  /\ vocabulary = {}
  /\ labels = {}
  /\ last = NoLast

Align ==
  /\ ~al_out.done
  /\ LET r == sentence_to_tokens(al_in.sentence, al_in.fes, collapse_fes)
     IN al_out' = [done |-> TRUE, raised |-> r.raised, tagged |-> r.tagged, steps |-> r.steps]
  /\ UNCHANGED <<window_width, collapse_fes, samples, vocabulary, labels, last, al_in>>

NextAlign == Align

SpecAlign == InitAlign /\ [][NextAlign]_vars

(* --------------------------- process_sentence --------------------------- *)

\* add_feature_to inserting the value into the vocabulary in both branches
add_feature_to_inserts(st, add_unknown, feature_name, feature_value) ==
  IF add_unknown \/ feature_value \in st.vocabulary
  THEN [st EXCEPT !.sample = (feature_name :> feature_value) @@ @,
                  !.vocabulary = @ \cup {feature_value}]
  ELSE [st EXCEPT !.sample = (feature_name :> unk_feature) @@ @,
                  !.vocabulary = @ \cup {feature_value}]

\* the inner function add_feature_to; st carries the sample being built and
\* self.vocabulary
add_feature_to(st, add_unknown, feature_name, feature_value) ==
  IF add_unknown \/ feature_value \in st.vocabulary
  THEN [st EXCEPT !.sample = (feature_name :> feature_value) @@ @,
                  !.vocabulary = @ \cup {feature_value}]
  ELSE [st EXCEPT !.sample = (feature_name :> unk_feature) @@ @]

\* gazetteer.get(term, [])
GazGet(gazetteer, term) == IF term \in DOMAIN gazetteer THEN gazetteer[term] ELSE <<>>

\* for feat in ...: sample['GAZ%+d' % rel] = feat
RECURSIVE GazLoop(_, _, _, _)
GazLoop(sample, rel, feats, n) ==
  IF n > Len(feats) THEN sample
  ELSE GazLoop((<<"GAZ", rel>> :> feats[n]) @@ sample, rel, feats, n + 1)

\* the body of the loop over the window, for one i
WindowStep(st, tagged, position, i, add_unknown, gazetteer) ==
  LET rel == i - position
      s1 == add_feature_to(st, add_unknown, <<"TERM", rel>>, At(tagged, i).term)
      s2 == add_feature_to(s1, add_unknown, <<"POS", rel>>, At(tagged, i).pos)
      s3 == add_feature_to(s2, add_unknown, <<"LEMMA", rel>>, At(tagged, i).lemma)
  IN [s3 EXCEPT !.sample = GazLoop(@, rel, GazGet(gazetteer, At(tagged, i).term), 1),
                !.i = i]

\* for i in xrange(lo, stop)
RECURSIVE WindowLoop(_, _, _, _, _, _, _)
WindowLoop(st, tagged, position, i, stop, add_unknown, gazetteer) ==
  IF i >= stop THEN st
  ELSE WindowLoop(WindowStep(st, tagged, position, i, add_unknown, gazetteer),
                  tagged, position, i + 1, stop, add_unknown, gazetteer)

\* PositionStep with the window ending at position + width - 1
PositionStep_short(acc, tagged, position, width, add_unknown, gazetteer) ==
  LET st0 == [sample |-> (<<"unk", 0>> :> unk_feature), vocabulary |-> acc.vocabulary,
              i |-> acc.i]
      st == WindowLoop(st0, tagged, position, Max(position - width, 0),
                       Min(position + width, Len(tagged)), add_unknown, gazetteer)
      tok == At(tagged, st.i)
      label == IF tok.len = 3 THEN "O" ELSE tok.fe
  IN [samples |-> Append(acc.samples, [features |-> st.sample, label |-> label]),
      vocabulary |-> st.vocabulary,
      labels |-> acc.labels \cup {label},
      i |-> st.i]

\* the body of the loop over the positions
PositionStep(acc, tagged, position, width, add_unknown, gazetteer) ==
  LET st0 == [sample |-> (<<"unk", 0>> :> unk_feature), vocabulary |-> acc.vocabulary,
              i |-> acc.i]
      st == WindowLoop(st0, tagged, position, Max(position - width, 0),
                       Min(position + width + 1, Len(tagged)), add_unknown, gazetteer)
      \* tagged[i]: i is the variable of the window loop, after the loop
      tok == At(tagged, st.i)
      label == IF tok.len = 3 THEN "O" ELSE tok.fe
  IN [samples |-> Append(acc.samples, [features |-> st.sample, label |-> label]),
      vocabulary |-> st.vocabulary,
      labels |-> acc.labels \cup {label},
      i |-> st.i]

\* for position in xrange(len(tagged))
RECURSIVE PositionLoop(_, _, _, _, _, _)
PositionLoop(acc, tagged, position, width, add_unknown, gazetteer) ==
  IF position >= Len(tagged) THEN acc
  ELSE PositionLoop(PositionStep(acc, tagged, position, width, add_unknown, gazetteer),
                    tagged, position + 1, width, add_unknown, gazetteer)

(* ------------------------- inputs of the extractor ---------------------- *)

ProcLexicon == {Tag(<<"a">>, <<"DT">>, <<"a">>), Tag(<<"b">>, <<"VB">>, <<"b">>)}

ProcEntries ==
  {[fe |-> "X", null |-> FALSE, chunk |-> <<"a">>], [fe |-> "Y", null |-> FALSE, chunk |-> <<"a">>],
   [fe |-> "Y", null |-> FALSE, chunk |-> <<"b">>]}

ProcFeMaps ==
  {m \in SeqsUpTo(ProcEntries, Cardinality(FeNames)) : \A i, j \in DOMAIN m : i # j => m[i].fe # m[j].fe}

Gazetteers == {<<>>, (<<"a">> :> <<<<"g1">>, <<"g2">>>>)}

(* ------------------------------- actions -------------------------------- *)

Init ==
  /\ window_width \in 0..MaxWidth
  /\ collapse_fes \in BOOLEAN
  /\ samples = <<>>
  /\ vocabulary = {}
  /\ labels = {}
  /\ last = NoLast
  /\ al_in = NoIn
  /\ al_out = NoOut

\* start leaving the label set as it was
start_keeps_labels ==
  /\ samples' = <<>>
  /\ vocabulary' = {}
  /\ UNCHANGED labels
  /\ last' = [NoLast EXCEPT !.op = "start"]
  /\ UNCHANGED <<window_width, collapse_fes, al_in, al_out>>

start ==
  /\ samples' = <<>>
  /\ vocabulary' = {}
  /\ labels' = {}
  /\ last' = [NoLast EXCEPT !.op = "start"]
  /\ UNCHANGED <<window_width, collapse_fes, al_in, al_out>>

process_sentence ==
  \E sentence \in SeqsUpTo(ProcLexicon, MaxSamples - Len(samples)), fes \in ProcFeMaps,
     add_unknown \in BOOLEAN, gazetteer \in Gazetteers :
    \E r \in {sentence_to_tokens(sentence, fes, collapse_fes)} :
      /\ IF r.raised
         THEN UNCHANGED <<samples, vocabulary, labels>>
         ELSE \E acc \in {PositionLoop([samples |-> samples, vocabulary |-> vocabulary,
                                        labels |-> labels, i |-> 0],
                                       r.tagged, 0, window_width, add_unknown, gazetteer)} :
                /\ samples' = acc.samples
                /\ vocabulary' = acc.vocabulary
                /\ labels' = acc.labels
      /\ last' = [op |-> "process_sentence", add_unknown |-> add_unknown,
                  raised |-> r.raised, tagged |-> r.tagged, result |-> <<>>]
      /\ UNCHANGED <<window_width, collapse_fes, al_in, al_out>>

\* the orders in which enumerate(self.labels) can yield the labels
Enumerations(S) ==
  {e \in [1..Cardinality(S) -> S] : \A x, y \in DOMAIN e : x # y => e[x] # e[y]}

\* label_index[label]; the lookup of an absent label raises
LabelVector(smpls, e) ==
  [x \in DOMAIN smpls |-> (CHOOSE y \in DOMAIN e : e[y] = smpls[x].label) - 1]

\* get_features emptying the samples it has consumed
get_features_clears ==
  /\ \E e \in Enumerations(labels) :
       LET raises == \/ samples = <<>>
                     \/ \E x \in DOMAIN samples : samples[x].label \notin labels
       IN /\ last' = [op |-> "get_features", add_unknown |-> FALSE, raised |-> raises,
                      tagged |-> <<>>,
                      result |-> IF raises THEN <<>> ELSE LabelVector(samples, e)]
          /\ samples' = <<>>
  /\ UNCHANGED <<window_width, collapse_fes, vocabulary, labels, al_in, al_out>>

\* get_features returning an empty result when no sample is held
get_features_no_raise ==
  /\ \E e \in Enumerations(labels) :
       LET raises == \E x \in DOMAIN samples : samples[x].label \notin labels
       IN last' = [op |-> "get_features", add_unknown |-> FALSE, raised |-> raises,
                   tagged |-> <<>>,
                   result |-> IF raises THEN <<>> ELSE LabelVector(samples, e)]
  /\ UNCHANGED <<window_width, collapse_fes, samples, vocabulary, labels, al_in, al_out>>

get_features ==
  /\ \E e \in Enumerations(labels) :
       LET raises == \/ samples = <<>>
                     \/ \E x \in DOMAIN samples : samples[x].label \notin labels
       IN last' = [op |-> "get_features", add_unknown |-> FALSE, raised |-> raises,
                   tagged |-> <<>>,
                   result |-> IF raises THEN <<>> ELSE LabelVector(samples, e)]
  /\ UNCHANGED <<window_width, collapse_fes, samples, vocabulary, labels, al_in, al_out>>

Next == start \/ process_sentence \/ get_features

Spec == Init /\ [][Next]_vars

(* ----------------------- claims on the alignment ------------------------ *)

\* the tokens of the chunk occur in tagged at positions s .. s+k-1
IsRun(tagged, fe_tokens, s) ==
  /\ s >= 0
  /\ s + Len(fe_tokens) <= Len(tagged)
  /\ \A x \in 0..(Len(fe_tokens) - 1) :
       Lower(At(tagged, s + x).term) = Lower(At(fe_tokens, x))

HasRun(tagged, fe_tokens) == \E s \in 0..Len(tagged) : IsRun(tagged, fe_tokens, s)

LeftmostRun(tagged, fe_tokens) ==
  CHOOSE s \in 0..Len(tagged) :
    IsRun(tagged, fe_tokens, s) /\ \A t \in 0..(s - 1) : ~IsRun(tagged, fe_tokens, t)

RECURSIVE Saved(_, _)
Saved(steps, n) ==
  IF n = 0 THEN 0
  ELSE Saved(steps, n - 1) + (IF steps[n].found THEN steps[n].k - 1 ELSE 0)

Found == {n \in DOMAIN al_out.steps : al_out.steps[n].found}

\* C7: in collapse mode every matched FE replaces its span [s, s+k-1] by the
\* single token (chunk, pos, chunk, fe), pos being ENT for k > 1 and the POS
\* of token s for k = 1, every other token is kept in order, the final
\* number of tokens is n minus the sum of the k-1, and the John Smith
\* example ends with 3 tokens in both iteration orders of the FE map.
C7_CollapseReplacesSpan ==
  (al_out.done /\ collapse_fes) =>
    /\ ~al_out.raised
    /\ \A n \in Found :
         LET st == al_out.steps[n]
             s == st.position
             k == st.k
         IN /\ IsRun(st.before, Tokenize(st.chunk), s)
            /\ Len(st.after) = Len(st.before) - (k - 1)
            /\ At(st.after, s).term = st.chunk
            /\ At(st.after, s).lemma = st.chunk
            /\ At(st.after, s).fe = st.fe
            /\ At(st.after, s).len = 4
            /\ At(st.after, s).pos = (IF k > 1 THEN ENT ELSE At(st.before, s).pos)
            /\ \A i \in 0..(s - 1) : At(st.after, i) = At(st.before, i)
            /\ \A i \in (s + 1)..(Len(st.after) - 1) : At(st.after, i) = At(st.before, i + k - 1)
            /\ st.before = (IF n = 1 THEN al_in.sentence ELSE al_out.steps[n - 1].after)
    /\ \A n \in DOMAIN al_out.steps \ Found :
         al_out.steps[n].after = al_out.steps[n].before
    /\ Len(al_out.tagged) = Len(al_in.sentence) - Saved(al_out.steps, Len(al_out.steps))
    /\ (al_in \in ExampleInputs => Len(al_out.tagged) = 3)

C7_Witness ==
  /\ al_out.done
  /\ collapse_fes
  /\ al_in \in ExampleInputs
  /\ Found = {1, 2}
  /\ Len(al_out.tagged) = 3

C7_WitnessSingle ==
  /\ al_out.done
  /\ collapse_fes
  /\ \E n \in Found : al_out.steps[n].k = 1 /\ al_out.steps[n].position > 0

\* a step whose match contains a token that an earlier FE relabelled
Overlaps(st) ==
  /\ st.found
  /\ \E i \in st.position..(st.position + st.k - 1) : At(st.before, i).len = 4

\* C8: in both modes a later FE whose match contains tokens relabelled by an
\* earlier FE is applied without raising, and the tokens of the later match
\* carry the later FE's name.
C8_OverlapNeverRaises ==
  al_out.done =>
    \A n \in DOMAIN al_out.steps :
      LET st == al_out.steps[n]
      IN Overlaps(st) =>
           /\ ~al_out.raised
           /\ \A i \in st.position..(st.position + (IF collapse_fes THEN 0 ELSE st.k - 1)) :
                At(st.after, i).fe = st.fe

\* C9: whenever the current tokens contain a run equal to the chunk's tokens
\* case-insensitively, the scan finds a match and it is the leftmost run;
\* an FE is skipped only when there is no such run.
C9_ScanFindsLeftmostRun ==
  al_out.done =>
    \A n \in DOMAIN al_out.steps :
      LET st == al_out.steps[n]
          fe_tokens == Tokenize(st.chunk)
      IN (~st.skipped /\ HasRun(st.before, fe_tokens)) =>
           /\ st.found
           /\ st.position = LeftmostRun(st.before, fe_tokens)

(* ----------------------- claims on the extractor ------------------------ *)

\* the samples appended by the last process_sentence, in order
Appended == SubSeq(samples, Len(samples) - Len(last.tagged) + 1, Len(samples))

Processed == last.op = "process_sentence" /\ ~last.raised

Offsets(features, kind) == {nm[2] : nm \in {x \in DOMAIN features : x[1] = kind}}

\* C1: every feature value of a sample appended with add_unknown = False is
\* the unknown sentinel or a member of the vocabulary, under every feature
\* name, GAZ features included.
C1_ValuesKnownOrSentinel ==
  (Processed /\ ~last.add_unknown) =>
    \A x \in DOMAIN Appended :
      \A nm \in DOMAIN Appended[x].features :
        Appended[x].features[nm] \in vocabulary \cup {unk_feature}

\* C2: a process_sentence with add_unknown = True leaves the vocabulary a
\* superset of what it was, one with add_unknown = False leaves it unchanged.
C2_VocabularyMonotone ==
  [][last'.op = "process_sentence" =>
       IF last'.add_unknown
       THEN vocabulary \subseteq vocabulary' /\ Cardinality(vocabulary) <= Cardinality(vocabulary')
       ELSE vocabulary' = vocabulary]_vars

C2_Witness ==
  /\ Processed
  /\ ~last.add_unknown
  /\ vocabulary # {}
  /\ \E x \in DOMAIN Appended :
       /\ Appended[x].features[<<"TERM", 0>>] = unk_feature
       /\ last.tagged[x].term \notin vocabulary

\* C3: the label of the sample of position p is the fe_label of the token at
\* position p, or "O" when that token has none.
C3_LabelOfCenterToken ==
  Processed =>
    \A x \in DOMAIN Appended :
      Appended[x].label = (IF last.tagged[x].len = 3 THEN "O" ELSE last.tagged[x].fe)

\* C4: process_sentence appends one sample per token of the aligned sequence,
\* in position order; the sample of position p has the sentinel feature and
\* has TERM, POS and LEMMA features at exactly the offsets r with
\* max(p-W,0) <= p+r <= min(p+W,n-1).
C4_OneSamplePerToken ==
  [][(last'.op = "process_sentence" /\ ~last'.raised) =>
       LET n == Len(last'.tagged)
           W == window_width
       IN /\ Len(samples') = Len(samples) + n
          /\ \A p \in 0..(n - 1) :
               LET f == samples'[Len(samples) + p + 1].features
               IN /\ <<"unk", 0>> \in DOMAIN f
                  /\ f[<<"unk", 0>>] = unk_feature
                  /\ \A kind \in {"TERM", "POS", "LEMMA"} :
                       Offsets(f, kind) =
                         {r \in (0 - n)..n : Max(p - W, 0) <= p + r /\ p + r <= Min(p + W, n - 1)}
                  /\ \A r \in Offsets(f, "TERM") :
                       f[<<"TERM", r>>] \in {At(last'.tagged, p + r).term, unk_feature}
                  /\ Offsets(f, "GAZ") \subseteq Offsets(f, "TERM")]_vars

C4_Witness ==
  /\ Processed
  /\ window_width >= 1
  /\ Len(last.tagged) >= 2
  /\ Offsets(Appended[1].features, "TERM") = {0, 1}
  /\ Offsets(Appended[2].features, "POS") = {0 - 1, 0}

\* C5: without a start the samples are append-only; get_features leaves
\* samples, vocabulary and labels as they were; only start empties them.
C5_AppendOnly ==
  [][/\ last'.op # "start" =>
          /\ Len(samples') >= Len(samples)
          /\ SubSeq(samples', 1, Len(samples)) = samples
     /\ last'.op = "get_features" => UNCHANGED <<samples, vocabulary, labels>>
     /\ (samples # <<>> /\ samples' = <<>>) => last'.op = "start"
     /\ (vocabulary # {} /\ vocabulary' = {}) => last'.op = "start"
     /\ (labels # {} /\ labels' = {}) => last'.op = "start"
     /\ last'.op = "start" => (samples' = <<>> /\ vocabulary' = {} /\ labels' = {})]_vars

C5_Witness ==
  /\ last.op = "get_features"
  /\ ~last.raised
  /\ Len(samples) >= 2
  /\ vocabulary # {}

\* C6: get_features fails exactly when no sample is held, returns nothing
\* then and leaves samples, vocabulary and labels unchanged.
C6_FailsOnEmpty ==
  [][last'.op = "get_features" =>
       /\ last'.raised <=> (samples = <<>>)
       /\ last'.raised => (last'.result = <<>> /\ UNCHANGED <<samples, vocabulary, labels>>)
       /\ ~last'.raised => Len(last'.result) = Len(samples)]_vars

C6_Witness ==
  /\ last.op = "get_features"
  /\ last.raised
  /\ samples = <<>>

\* C10: the label set is exactly the set of the labels of the accumulated
\* samples, so the lookup of get_features is defined for every sample and two
\* samples get the same integer iff they carry the same label.
C10_LabelsOfSamples ==
  /\ labels = {samples[x].label : x \in DOMAIN samples}
  /\ (last.op = "get_features" /\ samples # <<>>) =>
       /\ ~last.raised
       /\ Len(last.result) = Len(samples)
       /\ \A x, y \in DOMAIN samples :
            (last.result[x] = last.result[y]) <=> (samples[x].label = samples[y].label)
       /\ \A x \in DOMAIN samples : last.result[x] \in 0..(Cardinality(labels) - 1)

C10_Witness ==
  /\ last.op = "get_features"
  /\ ~last.raised
  /\ Cardinality(labels) >= 2
  /\ \E x, y \in DOMAIN samples : last.result[x] # last.result[y]

====
